---- MODULE Spec2Model ----
(***************************************************************************)
(* Model of linetools.spectra.utils.XSpectrum1D (src/linetools/spectra/    *)
(* utils.py): a spectrum object holding a dispersion (wavelength) array    *)
(* and a flux array, optionally an uncertainty array, and its methods      *)
(* rebin(new_wv), normalize(conti, no_check) and splice(spec2, wvmx).      *)
(*                                                                         *)
(* rebin and splice return a new spectrum and leave this one as it is;     *)
(* normalize stores into self.flux.  Each method has its specification:    *)
(* Spec follows a call of rebin, SpecNormalize a sequence of calls of      *)
(* normalize, SpecSplice a call of splice.                                 *)
(*                                                                         *)
(* Numbers.  Wavelength samples and flux samples are integers; every       *)
(* derived quantity (bin edges, widths, cumulative sums, interpolated      *)
(* values, rebinned flux) is an exact fraction [n |-> numerator,           *)
(* d |-> denominator], reduced, with d > 0.  numpy's result of a division  *)
(* by zero (inf, -inf, nan, with a RuntimeWarning and no exception) is     *)
(* the fraction with d = 0 and n = 1, -1, 0.                               *)
(*                                                                         *)
(* Arrays are sequences; Python's index i (0-based, negative from the end) *)
(* is At(s, i).                                                            *)
(***************************************************************************)
EXTENDS Integers, Sequences, FiniteSets, TLC

VARIABLES
    dispersion,  \* self.dispersion: the spectrum's wavelength samples
    flux,        \* self.flux: the spectrum's flux samples
    sig,         \* self.sig: the 1-sigma uncertainty array, or None
    op,          \* the last method called on the spectrum ("init": none yet)
    outcome,     \* how that call ended: "none", "returned", or the exception
    arg_new_wv,  \* the array the caller passed as new_wv, as it was at the call
    new_wv,      \* the caller's array as it is after the call
    wvh,         \* rebin's local: right edges of the source pixels
    dwv,         \* rebin's local: widths of the source pixels
    cumsum,      \* rebin's local: running sum of flux * dwv
    bwv,         \* rebin's local: the padded edges of the new pixels
    newcum,      \* rebin's local: the cumulative curve at bwv
    new_dwv,     \* rebin's local: bwv - roll(bwv, 1)
    new_fx,      \* rebin's local: the rebinned flux
    result,      \* the returned spectrum [wv, fx] (empty before any return)
    conti,       \* the array the caller passed to normalize as conti
    no_check,    \* the flag the caller passed to normalize as no_check
    ncalls,      \* how many calls of normalize the spectrum has had
    spec2,       \* the spectrum the caller passed to splice as spec2
    wvmx         \* what the caller passed to splice as wvmx, or None

vars == <<dispersion, flux, sig, op, outcome, arg_new_wv, new_wv, wvh, dwv,
          cumsum, bwv, newcum, new_dwv, new_fx, result, conti, no_check,
          ncalls, spec2, wvmx>>

\* what rebin works with
rebin_locals == <<arg_new_wv, new_wv, wvh, dwv, cumsum, bwv, newcum, new_dwv, new_fx>>

-----------------------------------------------------------------------------
(* Bounds of the model *)

MaxPix == 3      \* longest source spectrum
MaxWv == 2       \* source wavelength samples are drawn from 0..MaxWv
MaxNew == 3      \* longest target array
MaxCalls == 2    \* longest sequence of calls of normalize

-----------------------------------------------------------------------------
(* Exact arithmetic standing for numpy's float64 arithmetic *)

Abs(x) == IF x < 0 THEN -x ELSE x

Sign(x) == IF x < 0 THEN -1 ELSE IF x = 0 THEN 0 ELSE 1

RECURSIVE GCD(_, _)
GCD(a, b) == IF b = 0 THEN a ELSE GCD(b, a % b)

\* the quotient n / d of two integers
Rat(n, d) ==
    IF d = 0 THEN [n |-> Sign(n), d |-> 0]
    ELSE LET g == GCD(Abs(n), Abs(d))
             s == IF d < 0 THEN -1 ELSE 1
         IN  [n |-> (s * n) \div g, d |-> (s * d) \div g]

R(x) == [n |-> x, d |-> 1]

RAdd(a, b) == Rat(a.n * b.d + b.n * a.d, a.d * b.d)

RSub(a, b) == Rat(a.n * b.d - b.n * a.d, a.d * b.d)

RMul(a, b) == Rat(a.n * b.n, a.d * b.d)

RDiv(a, b) == Rat(a.n * b.d, a.d * b.n)

\* comparisons of finite fractions
RLt(a, b) == a.n * b.d < b.n * a.d

RLe(a, b) == a.n * b.d <= b.n * a.d

-----------------------------------------------------------------------------
(* Python and numpy array primitives *)

\* s[i]
At(s, i) == IF i < 0 THEN s[Len(s) + i + 1] ELSE s[i + 1]

\* s[i] = v
SetAt(s, i, v) ==
    LET k == IF i < 0 THEN Len(s) + i + 1 ELSE i + 1
    IN  [j \in 1..Len(s) |-> IF j = k THEN v ELSE s[j]]

\* np.roll(s, k): element i of the result is s[(i - k) mod len]
Roll(s, k) == [i \in 1..Len(s) |-> s[((i - 1 - k) % Len(s)) + 1]]

\* np.cumsum(s)
RECURSIVE CumSum(_)
CumSum(s) ==
    IF Len(s) = 0 THEN << >>
    ELSE LET front == CumSum(SubSeq(s, 1, Len(s) - 1))
         IN  IF Len(front) = 0 THEN <<s[1]>>
             ELSE Append(front, RAdd(front[Len(front)], s[Len(s)]))

\* an integer array seen as an array of fractions
AsRat(s) == [i \in 1..Len(s) |-> R(s[i])]

-----------------------------------------------------------------------------
(* XSpectrum1D.rebin, utils.py lines 187-244, statement by statement *)

\* lines 207 and 220: (wv + np.roll(wv, -1))/2., a newly allocated array
HalfSum(wv) ==
    LET a == AsRat(wv)
        r == Roll(a, -1)
    IN  [i \in 1..Len(wv) |-> RDiv(RAdd(a[i], r[i]), R(2))]

\* right-hand side of lines 208 and 221: wv[n-1] + (wv[n-1] - wv[n-2])/2.
LastEdge(wv) ==
    LET n == Len(wv)
    IN  RAdd(R(At(wv, n - 1)),
             RDiv(RSub(R(At(wv, n - 1)), R(At(wv, n - 2))), R(2)))

\* lines 207-208 (wvh) and 220-221 (nwvh): the right edge of every pixel
PixelEdges(wv) == SetAt(HalfSum(wv), Len(wv) - 1, LastEdge(wv))

\* line 210 without its factor 2
FirstWidthNotDoubled(w, disp) == RSub(At(w, 0), R(At(disp, 0)))

\* right-hand side of line 210: 2*(wvh[0] - self.dispersion[0])
FirstWidth(w, disp) == RMul(R(2), RSub(At(w, 0), R(At(disp, 0))))

\* lines 209-210: dwv
PixelWidths(w, disp) ==
    LET r == Roll(w, 1)
    IN  SetAt([i \in 1..Len(w) |-> RSub(w[i], r[i])], 0, FirstWidth(w, disp))

\* line 213: np.cumsum(self.flux * dwv)
CumFlux(fx, dw) == CumSum([i \in 1..Len(fx) |-> RMul(R(fx[i]), dw[i])])

\* line 216: fill_value=0.
FillValue == 0

\* np.searchsorted(x, v) for a sorted x: how many elements are below v
SearchSorted(x, v) == Cardinality({i \in 1..Len(x) : RLt(x[i], v)})

Clip(v, lo, hi) == IF v < lo THEN lo ELSE IF v > hi THEN hi ELSE v

\* line 216 with line 228: interp1d(x, y, fill_value=0., bounds_error=False)
\* evaluated at x_new.  x is increasing (the edges of an increasing grid), so
\* interp1d's sort of x leaves it as it is.  Outside [x[0], x[-1]] the value
\* is fill_value; inside, the line through the two neighbouring points.
Interp1d(x, y, x_new) ==
    IF RLt(x_new, At(x, 0)) \/ RLt(At(x, -1), x_new) THEN R(FillValue)
    ELSE LET hi == Clip(SearchSorted(x, x_new), 1, Len(x) - 1)
             lo == hi - 1
             slope == RDiv(RSub(At(y, hi), At(y, lo)), RSub(At(x, hi), At(x, lo)))
         IN  RAdd(RMul(slope, RSub(x_new, At(x, lo))), At(y, lo))

\* right-hand side of line 224: new_wv[0] - (new_wv[1] - new_wv[0])/2.
PadEdge(t) == RSub(R(At(t, 0)), RDiv(RSub(R(At(t, 1)), R(At(t, 0))), R(2)))

\* lines 223-225: bwv, one element longer than new_wv
PaddedEdges(t, nwvh) ==
    [i \in 1..(Len(t) + 1) |-> IF i = 1 THEN PadEdge(t) ELSE nwvh[i - 1]]

\* lines 228-232: the cumulative curve at every element of b, the last one
\* replaced by cumsum[-1] when b[-1] > wvh[-1]
Evaluate(w, cs, b) ==
    LET at_b == [i \in 1..Len(b) |-> Interp1d(w, cs, b[i])]
    IN  IF RLt(At(w, -1), At(b, -1)) THEN SetAt(at_b, -1, At(cs, -1)) ELSE at_b

\* line 238: bwv - np.roll(bwv, 1)
NewWidths(b) ==
    LET r == Roll(b, 1)
    IN  [i \in 1..Len(b) |-> RSub(b[i], r[i])]

\* line 241 dividing by new_dwv[:-1], the widths one bin to the left
RebinnedFluxShiftedWidths(nc, ndw) ==
    LET r == Roll(nc, -1)
        diff == [i \in 1..Len(nc) |-> RSub(r[i], nc[i])]
        num == SubSeq(diff, 1, Len(diff) - 1)
        den == SubSeq(ndw, 1, Len(ndw) - 1)
    IN  [i \in 1..Len(num) |-> RDiv(num[i], den[i])]

\* lines 235 and 241: (np.roll(newcum,-1) - newcum)[:-1] / new_dwv[1:]
RebinnedFlux(nc, ndw) ==
    LET r == Roll(nc, -1)
        diff == [i \in 1..Len(nc) |-> RSub(r[i], nc[i])]
        num == SubSeq(diff, 1, Len(diff) - 1)
        den == Tail(ndw)
    IN  [i \in 1..Len(num) |-> RDiv(num[i], den[i])]

\* line 207 adding in place (self.dispersion += np.roll(self.dispersion, -1))
SelfAfterRebinInPlace(disp, fx) ==
    [dispersion |-> [i \in 1..Len(disp) |-> disp[i] + Roll(disp, -1)[i]],
     flux |-> fx]

\* self.dispersion and self.flux after the call: lines 206-213 only read
\* them; wvh, dwv and cumsum are arrays newly allocated by the arithmetic of
\* lines 207, 209 and 213, and the stores of lines 208 and 210 go to those.
SelfAfterRebin(disp, fx) == [dispersion |-> disp, flux |-> fx]

\* the caller's array after the call: lines 219-225 only read new_wv; the
\* stores of lines 221, 224 and 225 go to the new arrays nwvh and bwv.
ArgAfterRebin(t) == t

NoResult == [wv |-> << >>, fx |-> << >>]

\* self.sig of a spectrum without uncertainty (line 43: None)
NoSig == [is_none |-> TRUE, array |-> << >>]

\* no spec2 passed yet
NoSpectrum == [dispersion |-> << >>, flux |-> << >>, sig |-> NoSig]

\* wvmx=None, the default of line 330
NoWvmx == [is_none |-> TRUE, value |-> 0]

\* rebin(new_wv) with new_wv = t, lines 187-244, one call on the spectrum.
\* len(t) = 0 raises IndexError at line 221 (nwvh[-1] of an empty array) and
\* len(t) = 1 at line 224 (new_wv[1]); nothing else in the method raises for
\* an increasing source.
Rebin(t) ==
    /\ op = "init"
    /\ op' = "rebin"
    /\ arg_new_wv' = t
    /\ wvh' = PixelEdges(dispersion)
    /\ dwv' = PixelWidths(wvh', dispersion)
    /\ cumsum' = CumFlux(flux, dwv')
    /\ dispersion' = SelfAfterRebin(dispersion, flux).dispersion
    /\ flux' = SelfAfterRebin(dispersion, flux).flux
    /\ new_wv' = ArgAfterRebin(t)
    /\ IF Len(t) < 2
       THEN /\ outcome' = "IndexError"
            /\ bwv' = << >>
            /\ newcum' = << >>
            /\ new_dwv' = << >>
            /\ new_fx' = << >>
            /\ result' = NoResult
       ELSE /\ bwv' = PaddedEdges(t, PixelEdges(t))
            /\ newcum' = Evaluate(wvh', cumsum', bwv')
            /\ new_dwv' = NewWidths(bwv')
            /\ new_fx' = RebinnedFlux(newcum', new_dwv')
            /\ result' = [wv |-> t, fx |-> new_fx']
            /\ outcome' = "returned"
    /\ UNCHANGED <<sig, conti, no_check, ncalls, spec2, wvmx>>

-----------------------------------------------------------------------------
(* XSpectrum1D.normalize, utils.py lines 75-102 *)

\* a / b of two arrays of one length, b an array of integers
Quotient(a, b) == [i \in 1..Len(a) |-> RDiv(a[i], R(b[i]))]

\* line 92 slicing the flux when the continuum is the shorter one
NormalizeEffectSlicingFlux(fx, c, nc) ==
    IF Len(c) # Len(fx)
    THEN IF nc
         THEN IF Len(c) > Len(fx)
              THEN [outcome |-> "returned", flux |-> Quotient(fx, SubSeq(c, 1, Len(fx)))]
              ELSE [outcome |-> "returned", flux |-> Quotient(SubSeq(fx, 1, Len(c)), c)]
         ELSE [outcome |-> "ValueError", flux |-> fx]
    ELSE [outcome |-> "returned", flux |-> Quotient(fx, c)]

\* lines 88-100: how the call ends and what self.flux is then.
\* conti[0:len(self.flux)] is the first len(self.flux) elements of conti.
NormalizeEffect(fx, c, nc) ==
    IF Len(c) # Len(fx)
    THEN IF nc
         THEN IF Len(c) > Len(fx)
              THEN [outcome |-> "returned", flux |-> Quotient(fx, SubSeq(c, 1, Len(fx)))]
              ELSE [outcome |-> "ValueError", flux |-> fx]
         ELSE [outcome |-> "ValueError", flux |-> fx]
    ELSE [outcome |-> "returned", flux |-> Quotient(fx, c)]

\* normalize(conti, no_check=nc) with conti = c, lines 75-102; verbose only
\* prints.  The flux holds floats here.
Normalize(c, nc) ==
    /\ ncalls < MaxCalls
    /\ op' = "normalize"
    /\ ncalls' = ncalls + 1
    /\ conti' = c
    /\ no_check' = nc
    /\ flux' = NormalizeEffect(flux, c, nc).flux
    /\ outcome' = NormalizeEffect(flux, c, nc).outcome
    /\ UNCHANGED <<dispersion, sig, result, spec2, wvmx>>
    /\ UNCHANGED rebin_locals

-----------------------------------------------------------------------------
(* XSpectrum1D.splice, utils.py lines 330-364 *)

\* np.max(s)
RECURSIVE MaxOf(_)
MaxOf(s) ==
    IF Len(s) = 1 THEN s[1]
    ELSE LET m == MaxOf(Tail(s)) IN IF s[1] > m THEN s[1] ELSE m

\* line 351 selecting the samples at or above wvmx
WhereAtLeast(d, w) == SelectSeq([i \in 1..Len(d) |-> i], LAMBDA i : d[i] >= w)

\* line 351: np.where(d > w)[0], the indices of the samples above w, ascending
WhereAbove(d, w) == SelectSeq([i \in 1..Len(d) |-> i], LAMBDA i : d[i] > w)

\* a[gdp]: the elements of a at the indices gdp, in the order of gdp
Take(a, gdp) == [j \in 1..Len(gdp) |-> a[gdp[j]]]

\* lines 348-349: the wavelength to splice after
SpliceAfter(disp, wx) == IF wx.is_none THEN MaxOf(disp) ELSE wx.value

\* splice(spec2, wvmx) with spec2 = s2 and wvmx = wx, lines 330-364, one call
\* on the spectrum.  new_sig is assigned only when self.sig is not None, and
\* line 362 reads it: without uncertainty the call raises UnboundLocalError;
\* with it, spec2.sig[gdp] of line 359 raises TypeError when spec2 has none.
Splice(s2, wx) ==
    /\ op = "init"
    /\ op' = "splice"
    /\ spec2' = s2
    /\ wvmx' = wx
    /\ IF sig.is_none
       THEN /\ outcome' = "UnboundLocalError"
            /\ result' = NoResult
       ELSE IF s2.sig.is_none
       THEN /\ outcome' = "TypeError"
            /\ result' = NoResult
       ELSE LET gdp == WhereAbove(s2.dispersion, SpliceAfter(dispersion, wx))
            IN  /\ outcome' = "returned"
                /\ result' = [wv |-> dispersion \o Take(s2.dispersion, gdp),
                              fx |-> flux \o Take(s2.flux, gdp),
                              sig |-> sig.array \o Take(s2.sig.array, gdp)]
    /\ UNCHANGED <<dispersion, flux, sig, conti, no_check, ncalls>>
    /\ UNCHANGED rebin_locals

-----------------------------------------------------------------------------
(* The spectra and the target arrays of the model *)

IsIncreasing(s) == \A i \in 1..(Len(s) - 1) : s[i] < s[i + 1]

SeqsUpTo(S, lo, hi) == UNION {[1..n -> S] : n \in lo..hi}

\* the spec's scenario, wavelengths counted in steps of 0.5:
\* source [1,2,3,4,5] with flux 10 everywhere, target [1.5, 2.5, 3.5]
ScenarioWv == <<2, 4, 6, 8, 10>>

ScenarioFlux == <<10, 10, 10, 10, 10>>

ScenarioNew == <<3, 5, 7>>

\* a spectrum's dispersion is increasing and as long as its flux
Grids == {s \in SeqsUpTo(0..MaxWv, 2, MaxPix) : IsIncreasing(s)}

\* flux samples: negative, zero and positive
FluxVals == {-1, 0, 2}

Spectra ==
    {[dispersion |-> g, flux |-> f] : g \in Grids, f \in SeqsUpTo(FluxVals, 2, MaxPix)}

\* the caller may pass any array, of any length, also one reaching beyond the
\* last edge of the source
Targets == SeqsUpTo(0..(MaxWv + 1), 0, MaxNew) \cup {ScenarioNew}

Init ==
    /\ \E s \in {x \in Spectra : Len(x.dispersion) = Len(x.flux)}
               \cup {[dispersion |-> ScenarioWv, flux |-> ScenarioFlux]} :
          /\ dispersion = s.dispersion
          /\ flux = s.flux
    /\ sig = NoSig
    /\ op = "init"
    /\ outcome = "none"
    /\ conti = << >>
    /\ no_check = FALSE
    /\ ncalls = 0
    /\ spec2 = NoSpectrum
    /\ wvmx = NoWvmx
    /\ arg_new_wv = << >>
    /\ new_wv = << >>
    /\ wvh = << >>
    /\ dwv = << >>
    /\ cumsum = << >>
    /\ bwv = << >>
    /\ newcum = << >>
    /\ new_dwv = << >>
    /\ new_fx = << >>
    /\ result = NoResult

Next == \E t \in Targets : Rebin(t)

Spec == Init /\ [][Next]_vars

\* the spectra normalize is called on: float flux of 2..MaxPix samples on the
\* grid 0, 1, 2, ...
NormalizeSpectra ==
    {s \in Spectra : /\ Len(s.dispersion) = Len(s.flux)
                     /\ \A i \in 1..Len(s.dispersion) : s.dispersion[i] = i - 1}

\* continuum samples
ContiVals == {1, 2}

\* the continua the caller passes: shorter than, as long as and longer than
\* the flux, constant or alternating
Continua ==
    {c \in SeqsUpTo(ContiVals, 1, MaxPix + 1) :
        \A i \in 1..(Len(c) - 2) : c[i + 2] = c[i]}

InitNormalize ==
    /\ \E s \in NormalizeSpectra :
          /\ dispersion = s.dispersion
          /\ flux = AsRat(s.flux)
    /\ sig = NoSig
    /\ op = "init"
    /\ outcome = "none"
    /\ conti = << >>
    /\ no_check = FALSE
    /\ ncalls = 0
    /\ spec2 = NoSpectrum
    /\ wvmx = NoWvmx
    /\ arg_new_wv = << >>
    /\ new_wv = << >>
    /\ wvh = << >>
    /\ dwv = << >>
    /\ cumsum = << >>
    /\ bwv = << >>
    /\ newcum = << >>
    /\ new_dwv = << >>
    /\ new_fx = << >>
    /\ result = NoResult

NextNormalize == \E c \in Continua, nc \in BOOLEAN : Normalize(c, nc)

SpecNormalize == InitNormalize /\ [][NextNormalize]_vars

------------------------------------------------------------------------\* the uncertainty of a spectrum of n samples: none, or n samples
SigsOf(n) == {NoSig, [is_none |-> FALSE, array |-> [i \in 1..n |-> i]]}

\* the spectra splice is called on and with: those of non-negative flux,
\* with and without uncertainty
SpliceSpectra ==
    UNION {{[dispersion |-> x.dispersion, flux |-> x.flux, sig |-> e] :
                e \in SigsOf(Len(x.flux))} :
            x \in {y \in Spectra : /\ Len(y.dispersion) = Len(y.flux)
                                  /\ \A i \in 1..Len(y.flux) : y.flux[i] >= 0}}

\* wvmx: left out, or a wavelength
WvmxArgs == {NoWvmx} \cup {[is_none |-> FALSE, value |-> v] : v \in 0..(MaxWv + 1)}

InitSplice ==
    /\ \E s \in SpliceSpectra :
          /\ dispersion = s.dispersion
          /\ flux = s.flux
          /\ sig = s.sig
    /\ op = "init"
    /\ outcome = "none"
    /\ conti = << >>
    /\ no_check = FALSE
    /\ ncalls = 0
    /\ spec2 = NoSpectrum
    /\ wvmx = NoWvmx
    /\ arg_new_wv = << >>
    /\ new_wv = << >>
    /\ wvh = << >>
    /\ dwv = << >>
    /\ cumsum = << >>
    /\ bwv = << >>
    /\ newcum = << >>
    /\ new_dwv = << >>
    /\ new_fx = << >>
    /\ result = NoResult

NextSplice == \E s2 \in SpliceSpectra, wx \in WvmxArgs : Splice(s2, wx)

SpecSplice == InitSplice /\ [][NextSplice]_vars

-----------------------------------------------------------------------------
(* Vocabulary of the properties *)

Called == op = "rebin"

Returned == op = "rebin" /\ outcome = "returned"

\* the contract's source: as many flux samples as wavelengths, at least 2,
\* strictly increasing
ValidSource ==
    /\ Len(dispersion) = Len(flux)
    /\ Len(dispersion) >= 2
    /\ IsIncreasing(dispersion)

\* the contract's target: at least 2 samples, strictly increasing
ValidTarget == Len(arg_new_wv) >= 2 /\ IsIncreasing(arg_new_wv)

NonNegativeFlux == \A i \in 1..Len(flux) : flux[i] >= 0

UniformFlux == \A i \in 1..Len(flux) : flux[i] = flux[1]

UniformTarget ==
    \A i \in 1..(Len(arg_new_wv) - 1) :
        arg_new_wv[i + 1] - arg_new_wv[i] = arg_new_wv[2] - arg_new_wv[1]

TargetWithinSource ==
    \A i \in 1..Len(arg_new_wv) :
        dispersion[1] <= arg_new_wv[i] /\ arg_new_wv[i] <= dispersion[Len(dispersion)]

RMin(a, b) == IF RLe(a, b) THEN a ELSE b

RMax(a, b) == IF RLe(a, b) THEN b ELSE a

RECURSIVE RSum(_)
RSum(s) == IF Len(s) = 0 THEN R(0) ELSE RAdd(s[1], RSum(Tail(s)))

\* source bin j covers [LeftOf(j), wvh[j]]; the first bin starts one width
\* before its right edge
LeftOf(j) == IF j = 1 THEN RSub(wvh[1], dwv[1]) ELSE wvh[j - 1]

\* the integral over [a, b] of the source's piecewise-constant flux
SourceIntegral(a, b) ==
    RSum([j \in 1..Len(flux) |->
            LET lo == RMax(a, LeftOf(j))
                hi == RMin(b, wvh[j])
            IN  IF RLt(lo, hi) THEN RMul(R(flux[j]), RSub(hi, lo)) ELSE R(0)])

\* the sum of new_fx[i] * (width of target bin i) over the target bins
\* except the first and the last
InteriorSum ==
    RSum([k \in 1..(Len(new_fx) - 2) |->
            RMul(new_fx[k + 1], RSub(bwv[k + 2], bwv[k + 1]))])

\* a source or target bin of zero or negative width
DegenerateBin ==
    \/ \E i \in 1..(Len(dispersion) - 1) : dispersion[i + 1] <= dispersion[i]
    \/ \E i \in 1..(Len(arg_new_wv) - 1) : arg_new_wv[i + 1] <= arg_new_wv[i]

\* line 241 divided by an element of new_dwv[1:] that is 0
DividedByZeroWidth == \E i \in 1..Len(new_fx) : new_dwv[i + 1] = R(0)

\* the cumulative curve rebin evaluates, with its values outside the source
\* edges
CumulativeAt(x) == Interp1d(wvh, cumsum, x)

\* wavelengths in steps of 1/2 from before the first source edge to beyond
\* the last one
Probes == {Rat(k, 2) : k \in (-2)..(2 * MaxWv + 6)}

-----------------------------------------------------------------------------
(* The properties *)

(* C1.  Flux conservation: for an increasing target whose samples all lie   *)
(* within [first source wavelength, last source wavelength], the sum of     *)
(* new_fx[i] * width[i] over the target bins except the first and the last  *)
(* equals the integral of the source's piecewise-constant flux over the     *)
(* interval those bins cover.                                               *)
C1_FluxConservation ==
    (Returned /\ ValidTarget /\ TargetWithinSource)
        => InteriorSum = SourceIntegral(bwv[2], bwv[Len(bwv) - 1])

(* C2.  Identity: rebinning onto the source grid itself returns the         *)
(* original flux at every index, the first and the last included.           *)
C2_Identity ==
    (Returned /\ arg_new_wv = dispersion) => result.fx = AsRat(flux)

C2_Witness ==
    /\ Returned
    /\ arg_new_wv = dispersion
    /\ Len(flux) = 3
    /\ flux[1] # 0
    /\ flux[1] # flux[2]
    /\ flux[3] # 0

(* C3.  Uniform flux is invariant under rebin: a source with the same flux  *)
(* c at every sample, rebinned onto a uniformly spaced target within the    *)
(* source's wavelength range, gives c at every output sample; in particular *)
(* the scenario (source [1,2,3,4,5], flux 10, target [1.5,2.5,3.5], here in *)
(* steps of 0.5) gives [10,10,10].                                          *)
C3_UniformFluxInvariant ==
    /\ (Returned /\ ValidTarget /\ TargetWithinSource /\ UniformTarget /\ UniformFlux)
          => \A i \in 1..Len(new_fx) : new_fx[i] = R(flux[1])
    /\ (Returned /\ dispersion = ScenarioWv /\ flux = ScenarioFlux
            /\ arg_new_wv = ScenarioNew)
          => new_fx = <<R(10), R(10), R(10)>>

(* C4.  Extrapolation clamping of the output: with non-negative flux, every *)
(* output value at a target sample beyond the source's last bin edge is at  *)
(* most the flux of the last source bin.                                    *)
C4_OutputClamped ==
    (Returned /\ ValidTarget /\ NonNegativeFlux)
        => \A i \in 1..Len(new_fx) :
              RLt(At(wvh, -1), R(arg_new_wv[i]))
                  => RLe(new_fx[i], R(At(flux, -1)))

(* C5.  Clamping of the cumulative curve: at every target bin edge beyond   *)
(* the source's last bin edge (not only the last one) the cumulative value  *)
(* rebin uses is the source's final cumulative value.                       *)
C5_CumulativeClamped ==
    (Returned /\ ValidTarget)
        => \A i \in 1..Len(bwv) :
              RLt(At(wvh, -1), bwv[i]) => newcum[i] = At(cumsum, -1)

(* C6.  Input validation: the call fails with InvalidInputError and returns *)
(* no spectrum whenever the source wavelength and flux differ in length, or *)
(* the source or the target has fewer than 2 samples, or is not strictly    *)
(* increasing.                                                              *)
C6_InvalidInputRejected ==
    (Called /\ ~(ValidSource /\ ValidTarget))
        => (outcome = "InvalidInputError" /\ result = NoResult)

(* C7.  Degenerate bins: whenever a source or target bin width is zero or   *)
(* negative, rebin signals DegenerateBinError; no execution divides a       *)
(* cumulative-flux difference by a zero bin width.                          *)
C7_DegenerateBinSignalled ==
    Called => /\ DegenerateBin => outcome = "DegenerateBinError"
              /\ ~DividedByZeroWidth

(* C8.  Output shape: for a target of n >= 2 samples rebin builds n+1       *)
(* target bin edges (a padded edge before the first sample, then an edge    *)
(* after each sample) and returns n flux values, the i-th being the         *)
(* cumulative difference across edges i and i+1 divided by the width        *)
(* between those two edges.                                                 *)
C8_OutputShape ==
    /\ (Called /\ ValidTarget) => outcome = "returned"
    /\ Returned
         => LET n == Len(arg_new_wv)
            IN  /\ n >= 2
                /\ Len(bwv) = n + 1
                /\ Len(newcum) = n + 1
                /\ Len(result.fx) = n
                /\ result.wv = arg_new_wv
                /\ IsIncreasing(arg_new_wv)
                     => /\ RLt(bwv[1], R(arg_new_wv[1]))
                        /\ \A i \in 1..n : RLt(R(arg_new_wv[i]), bwv[i + 1])
                /\ \A i \in 1..n :
                      result.fx[i] = RDiv(RSub(newcum[i + 1], newcum[i]),
                                          RSub(bwv[i + 1], bwv[i]))

C8_Witness ==
    /\ Returned
    /\ Len(arg_new_wv) = 3
    /\ IsIncreasing(arg_new_wv)
    /\ arg_new_wv[2] - arg_new_wv[1] # arg_new_wv[3] - arg_new_wv[2]
    /\ \A i \in 1..3 : result.fx[i].n # 0 /\ result.fx[i].d # 0

(* C9.  Monotonicity of the cumulative curve: with non-negative flux the    *)
(* function rebin evaluates (the interpolant over the source edges with its *)
(* fallback values outside them) is non-decreasing: a <= b implies its      *)
(* value at a is <= its value at b, also outside the source domain.         *)
C9_CumulativeMonotone ==
    (Called /\ NonNegativeFlux)
        => \A a, b \in Probes :
              RLe(a, b) => RLe(CumulativeAt(a), CumulativeAt(b))

(* C10.  No side effects: a call of rebin, whether it returns or fails,     *)
(* leaves the spectrum's dispersion and flux and the caller's target array  *)
(* as they were before the call; a returned spectrum is a new one, on the   *)
(* target grid.                                                             *)
C10_NoSideEffects ==
    [][op' = "rebin" =>
          /\ dispersion' = dispersion
          /\ flux' = flux
          /\ new_wv' = arg_new_wv'
          /\ outcome' = "returned" => result'.wv = arg_new_wv']_vars

C10_Witness ==
    /\ Returned
    /\ Len(new_wv) = 3
    /\ new_wv # dispersion
    /\ result.fx # AsRat(flux)

(* C11.  Length check of normalize: when the continuum and the flux differ *)
(* in length the call raises ValueError and leaves the flux as it was,      *)
(* except with no_check set and a longer continuum, when every flux[i] is   *)
(* divided by conti[i]; so every call, and every sequence of calls, leaves  *)
(* the length of the flux as it was.                                        *)
C11_NormalizeLengthCheck ==
    [][op' = "normalize" =>
          /\ Len(flux') = Len(flux)
          /\ Len(conti') # Len(flux) =>
                IF no_check' /\ Len(conti') > Len(flux)
                THEN /\ outcome' = "returned"
                     /\ \A i \in 1..Len(flux) :
                           RMul(flux'[i], R(conti'[i])) = flux[i]
                ELSE /\ outcome' = "ValueError"
                     /\ flux' = flux]_vars

C11_Witness ==
    /\ op = "normalize"
    /\ ncalls = 2
    /\ outcome = "returned"
    /\ no_check
    /\ Len(conti) > Len(flux)
    /\ conti[1] # conti[2]
    /\ \A i \in 1..Len(flux) : flux[i].n # 0 /\ flux[i].d > 1

====
